---- MODULE Spec2Model ----
(***************************************************************************)
(* Model of the Shiny question-answering front-end of src/Gen10/app.py:    *)
(* the per-session reactive value response_text, the "question" input, the *)
(* submit handler handle_ask (split at its blocking query_engine.query     *)
(* call), the five sample-question handlers built by make_handler, and the *)
(* output renderer response.                                               *)
(*                                                                         *)
(* TLA+ strings are ASCII: the two emoji of the source's literals are      *)
(* written as their code points, "<U+1F504>" and "<U+274C>".               *)
(***************************************************************************)
EXTENDS Integers, Sequences, FiniteSets, TLC

\* ---------------------------------------------------------------- bounds
MaxClicks == 2      \* clicks of the "ask" button, over all sessions

\* Two concurrent sessions: each runs server() on its own, and two are what
\* it takes for one session's handler to act on another session's state.
Sessions == {1, 2}

\* ------------------------------------------------------- program constants
SAMPLE_QUESTIONS ==
    << "What is Crawl4AI?",
       "How do I add a proxy to my crawler?",
       "How to build a simple web crawler?",
       "How does the JsonCssExtractionStrategy work?",
       "How can I crawl multiple URLs?" >>

WORKING == "<U+1F504> Thinking..."
ERROR_PREFIX == "<U+274C> Error: "
PLACEHOLDER == "Ask a question to get started!"

\* Python indexes lists from 0: SAMPLE_QUESTIONS[i] of the source.
SampleAt(i) == SAMPLE_QUESTIONS[i + 1]
SampleIds == 0..(Len(SAMPLE_QUESTIONS) - 1)

\* list.index(x): the first position holding x.
ListIndex(x) ==
    CHOOSE i \in SampleIds :
        /\ SampleAt(i) = x
        /\ \A j \in SampleIds : SampleAt(j) = x => i <= j

\* ------------------------------------------------------------ environment
\* Texts a user types into the question field: empty, blank, a question.
Typed == { "", " ", "What is Crawl4AI?" }

\* What a (stub) query engine hands back: a plain str, or a Response object
\* whose text may be unset. Exceptions are instances of Exception, the class
\* the handler's except clause names.
Returns ==
    { [kind |-> "str", v |-> "42"],
      [kind |-> "str", v |-> ""],
      [kind |-> "Response", v |-> "I don't know!"],
      [kind |-> "Response", v |-> ""] }

\* Exceptions a query can raise, by their message (Exception() has none).
Raises ==
    { [kind |-> "Exception", v |-> "boom"],
      [kind |-> "Exception", v |-> ""] }

NoResult == [kind |-> "none", v |-> ""]

\* ------------------------------------------------------------------ state
VARIABLES
    response_text,  \* session -> the reactive.Value of server()
    question,       \* session -> input.question(), the question field
    queued,         \* session -> "ask" clicks received and not yet handled
    pc,             \* session -> "idle" | "querying" | "flush" ("crashed":
                    \*            an exception left a handler; never reached)
    arg,            \* session -> argument of the query call in flight
    displayed,      \* session -> what output "response" last rendered
    query_engine,   \* the shared engine: its installed prompt template
    submits,        \* history: session -> handle_ask invocations
    calls,          \* history: session -> query_engine.query calls
    last            \* history: session -> the most recent submit: st is
                    \*   "none" (no submit yet), "skipped" (empty question),
                    \*   "pending", "ok" or "err"; res what the engine
                    \*   returned or raised; before the Response State an
                    \*   empty-question submit found

vars == << response_text, question, queued, pc, arg, displayed,
           query_engine, submits, calls, last >>

\* ---------------------------------------------------------- pure functions
\* bool(text) of a Python str.
Truthy_uncalled(text) == TRUE

Truthy(text) == text # ""

\* str(x) of what the engine returns or raises: a str is itself, a Response
\* its text or "None" when it has none, an exception its message.
Str_attr(x) == x.v

Str(x) ==
    CASE x.kind = "str" -> x.v
      [] x.kind = "Response" -> IF x.v = "" THEN "None" ELSE x.v
      [] x.kind = "Exception" -> x.v

\* The f-string of the except branch.
ErrorText(e) == ERROR_PREFIX \o Str(e)

\* The output renderer.
response_box(text) == [class |-> "response-box", style |-> "", text |-> text]

response(text) ==
    IF ~Truthy(text)
    THEN [class |-> "", style |-> "color: #666;", text |-> PLACEHOLDER]
    ELSE [class |-> "response-box", style |-> "", text |-> text]

\* make_handler(question): the effect it registers, as the control whose
\* click triggers it and the value it writes.
make_handler_late(q) ==
    [event |-> ListIndex(q), value |-> SampleAt(Len(SAMPLE_QUESTIONS) - 1)]

make_handler(q) == [event |-> ListIndex(q), value |-> q]

\* The handlers the loop of server() registers, one per list entry.
Handlers == { make_handler(SampleAt(i)) : i \in SampleIds }

RECURSIVE SumOver(_, _)
SumOver(f, S) ==
    IF S = {} THEN 0
    ELSE LET x == CHOOSE y \in S : TRUE IN f[x] + SumOver(f, S \ {x})

TotalClicks == SumOver(submits, Sessions) + SumOver(queued, Sessions)

\* ------------------------------------------------------------------- Init
Init ==
    /\ response_text = [s \in Sessions |-> ""]
    /\ question = [s \in Sessions |-> ""]
    /\ queued = [s \in Sessions |-> 0]
    /\ pc = [s \in Sessions |-> "idle"]
    /\ arg = [s \in Sessions |-> ""]
    /\ displayed = [s \in Sessions |-> response("")]
    /\ query_engine = [text_qa_template |-> "qa_prompt_tmpl"]
    /\ submits = [s \in Sessions |-> 0]
    /\ calls = [s \in Sessions |-> 0]
    /\ last = [s \in Sessions |->
                 [st |-> "none", res |-> NoResult, before |-> ""]]

\* ---------------------------------------------------------------- actions
\* A session takes the client's events in the order they were made, one at a
\* time: an edit of the field waits for the handler that is running and for
\* the clicks made before it. handle_ask is synchronous, so nothing else of
\* its session runs between its first line and its last; it is cut in two at
\* the query call only so that the state during the call can be spoken of.
\* Whether other sessions run during the call is the runtime's business:
\* here they may. An edit or click that changes nothing takes no step.

\* The user edits the question field.
type_question(s, text) ==
    /\ pc[s] = "idle"
    /\ queued[s] = 0
    /\ question[s] # text
    /\ question' = [question EXCEPT ![s] = text]
    /\ UNCHANGED << response_text, queued, pc, arg, displayed, query_engine,
                    submits, calls, last >>

\* The user clicks "Ask"; the click waits while the session's handler runs.
click_ask(s) ==
    /\ TotalClicks < MaxClicks
    /\ queued' = [queued EXCEPT ![s] = @ + 1]
    /\ UNCHANGED << response_text, question, pc, arg, displayed, query_engine,
                    submits, calls, last >>

\* The body of `if input.question():` up to the call of query_engine.query.
ask_query_silent(s) ==
    /\ arg' = [arg EXCEPT ![s] = question[s]]
    /\ calls' = [calls EXCEPT ![s] = @ + 1]
    /\ pc' = [pc EXCEPT ![s] = "querying"]
    /\ UNCHANGED response_text

ask_query(s) ==
    /\ response_text' = [response_text EXCEPT ![s] = WORKING]
    /\ arg' = [arg EXCEPT ![s] = question[s]]
    /\ calls' = [calls EXCEPT ![s] = @ + 1]
    /\ pc' = [pc EXCEPT ![s] = "querying"]

\* The `if` has no else: an empty question ends the handler.
ask_skip_clear(s) ==
    /\ response_text' = [response_text EXCEPT ![s] = ""]
    /\ UNCHANGED << arg, calls, pc >>

ask_skip(s) == UNCHANGED << response_text, arg, calls, pc >>

\* handle_ask, run for one click, up to its blocking call.
handle_ask(s) ==
    /\ pc[s] = "idle"
    /\ queued[s] > 0
    /\ queued' = [queued EXCEPT ![s] = @ - 1]
    /\ submits' = [submits EXCEPT ![s] = @ + 1]
    /\ last' = [last EXCEPT ![s] =
                  [st |-> IF question[s] = "" THEN "skipped" ELSE "pending",
                   res |-> NoResult,
                   before |-> IF question[s] = "" THEN response_text[s] ELSE ""]]
    /\ IF Truthy(question[s]) THEN ask_query(s) ELSE ask_skip(s)
    /\ UNCHANGED << question, displayed, query_engine >>

\* The call returns r: response_text.set(str(response)).
query_return_shared(s, r) ==
    /\ pc[s] = "querying"
    /\ response_text' = [o \in Sessions |-> Str(r)]
    /\ pc' = [pc EXCEPT ![s] = "flush"]
    /\ arg' = [arg EXCEPT ![s] = ""]
    /\ last' = [last EXCEPT ![s].st = "ok", ![s].res = r]
    /\ UNCHANGED << question, queued, displayed, query_engine, submits, calls >>

query_return(s, r) ==
    /\ pc[s] = "querying"
    /\ response_text' = [response_text EXCEPT ![s] = Str(r)]
    /\ pc' = [pc EXCEPT ![s] = "flush"]
    /\ arg' = [arg EXCEPT ![s] = ""]
    /\ last' = [last EXCEPT ![s].st = "ok", ![s].res = r]
    /\ UNCHANGED << question, queued, displayed, query_engine, submits, calls >>

\* The call raises e: the except branch.
query_raise_swallow(s, e) ==
    /\ pc[s] = "querying"
    /\ pc' = [pc EXCEPT ![s] = "flush"]
    /\ arg' = [arg EXCEPT ![s] = ""]
    /\ last' = [last EXCEPT ![s].st = "err", ![s].res = e]
    /\ UNCHANGED << response_text, question, queued, displayed, query_engine,
                    submits, calls >>

query_raise_escape(s, e) ==
    /\ pc[s] = "querying"
    /\ pc' = [pc EXCEPT ![s] = "crashed"]
    /\ arg' = [arg EXCEPT ![s] = ""]
    /\ last' = [last EXCEPT ![s].st = "err", ![s].res = e]
    /\ UNCHANGED << response_text, question, queued, displayed, query_engine,
                    submits, calls >>

query_raise_retry(s, e) ==
    /\ pc[s] = "querying"
    /\ IF calls[s] <= submits[s]
       THEN /\ calls' = [calls EXCEPT ![s] = @ + 1]
            /\ UNCHANGED << response_text, pc, arg, last >>
       ELSE /\ response_text' = [response_text EXCEPT ![s] = ErrorText(e)]
            /\ pc' = [pc EXCEPT ![s] = "flush"]
            /\ arg' = [arg EXCEPT ![s] = ""]
            /\ last' = [last EXCEPT ![s].st = "err", ![s].res = e]
            /\ UNCHANGED calls
    /\ UNCHANGED << question, queued, displayed, query_engine, submits >>

query_raise(s, e) ==
    /\ pc[s] = "querying"
    /\ response_text' = [response_text EXCEPT ![s] = ErrorText(e)]
    /\ pc' = [pc EXCEPT ![s] = "flush"]
    /\ arg' = [arg EXCEPT ![s] = ""]
    /\ last' = [last EXCEPT ![s].st = "err", ![s].res = e]
    /\ UNCHANGED << question, queued, displayed, query_engine, submits, calls >>

\* The user clicks control sample_i: every handler registered on it runs.
\* ui.update_text_area writes the field through the client; the value is
\* taken as written when the handler runs.
sample_click(s, i) ==
    /\ pc[s] = "idle"
    /\ queued[s] = 0
    /\ \E h \in Handlers :
          /\ h.event = i
          /\ question[s] # h.value
          /\ question' = [question EXCEPT ![s] = h.value]
    /\ UNCHANGED << response_text, queued, pc, arg, displayed, query_engine,
                    submits, calls, last >>

\* The invalidated output "response" re-renders, ending the flush.
render(s) ==
    /\ pc[s] = "flush"
    /\ displayed' = [displayed EXCEPT ![s] = response(response_text[s])]
    /\ pc' = [pc EXCEPT ![s] = "idle"]
    /\ UNCHANGED << response_text, question, queued, arg, query_engine,
                    submits, calls, last >>

Next ==
    \/ \E s \in Sessions, text \in Typed : type_question(s, text)
    \/ \E s \in Sessions : click_ask(s)
    \/ \E s \in Sessions : handle_ask(s)
    \/ \E s \in Sessions, r \in Returns : query_return(s, r)
    \/ \E s \in Sessions, e \in Raises : query_raise(s, e)
    \/ \E s \in Sessions, i \in SampleIds : sample_click(s, i)
    \/ \E s \in Sessions : render(s)

Spec == Init /\ [][Next]_vars

\* ------------------------------------------------- vocabulary of the claims
\* A step in which session s's handle_ask is invoked (a submit action).
AskStep(s) == submits'[s] = submits[s] + 1

\* A step in which session s's handle_ask comes back from its query call.
DoneStep(s) == pc[s] = "querying" /\ pc'[s] # "querying"

\* The textual form of an answer: a str as it is, a Response object by its
\* text, which reads None when it has none.
TextualForm(a) ==
    IF a.kind = "Response" /\ a.v = "" THEN "None" ELSE a.v

AnswerTexts == { TextualForm(a) : a \in Returns }
ErrorTexts == { ERROR_PREFIX \o e.v : e \in Raises }

PlaceholderBlock ==
    [class |-> "", style |-> "color: #666;",
     text |-> "Ask a question to get started!"]

ResponseBox(text) ==
    [class |-> "response-box", style |-> "", text |-> text]

\* ------------------------------------------------------------------ claims
\* C1: for a submit with a non-empty question, Response State is the working
\* indicator for as long as the query call is in flight, and once the call
\* has returned or raised it is an answer text or an error-prefixed string
\* and no longer the working indicator.
C1_WorkingThenResult ==
    \A s \in Sessions :
        /\ last[s].st = "pending" =>
              pc[s] = "querying" /\ response_text[s] = WORKING
        /\ pc[s] = "querying" => response_text[s] = WORKING
        /\ last[s].st = "ok" =>
              response_text[s] \in AnswerTexts /\ pc[s] # "querying"
        /\ last[s].st = "err" =>
              response_text[s] \in ErrorTexts /\ pc[s] # "querying"
        /\ pc[s] # "querying" => response_text[s] # WORKING

C1_Witness ==
    \E s \in Sessions :
        /\ last[s].st = "err"
        /\ pc[s] = "idle"
        /\ response_text[s] \in ErrorTexts

C3_ErrorCaught ==
    \A s \in Sessions :
        /\ pc[s] \in {"idle", "querying", "flush"}
        /\ last[s].st = "err" =>
              /\ response_text[s] = ERROR_PREFIX \o last[s].res.v
              /\ pc[s] \in {"flush", "idle"}
        /\ (pc[s] = "idle" /\ queued[s] > 0) => ENABLED handle_ask(s)

C3_Witness ==
    \E s \in Sessions :
        /\ last[s].st = "err"
        /\ last[s].res.v = "boom"
        /\ response_text[s] = ERROR_PREFIX \o "boom"
        /\ pc[s] = "idle"
        /\ queued[s] > 0

\* C4: a submit while the question field is empty leaves Response State as
\* it was, whatever it was, and makes no call of the query engine.
C4_EmptySubmitNoChange ==
    [][\A s \in Sessions :
          (AskStep(s) /\ question[s] = "") =>
              /\ response_text' = response_text
              /\ calls' = calls
              /\ arg' = arg
              /\ pc'[s] = "idle"]_vars

C4_Witness ==
    \E s \in Sessions :
        /\ last[s].st = "skipped"
        /\ last[s].before \in ErrorTexts
        /\ response_text[s] \in ErrorTexts
        /\ calls[s] = 1
        /\ submits[s] = 2

\* C5 as stated: every submit, whatever the question field holds, takes
\* Response State to the working indicator.
C5_AnySubmitToWorking ==
    [][\A s \in Sessions : AskStep(s) => response_text'[s] = WORKING]_vars

\* C5, amended: Response State starts empty (Idle); every submit with a
\* non-empty question takes it to the working indicator, from Idle, Answered
\* and Errored alike; and it changes in no other way than to the working
\* indicator at such a submit, or from the working indicator to an answer
\* text or an error string when the call is over.
C5_StateMachine ==
    /\ \A s \in Sessions : submits[s] = 0 => response_text[s] = ""
    /\ [][\A s \in Sessions :
            /\ (AskStep(s) /\ question[s] # "") => response_text'[s] = WORKING
            /\ response_text'[s] # response_text[s] =>
                  \/ AskStep(s) /\ question[s] # "" /\ response_text'[s] = WORKING
                  \/ /\ DoneStep(s)
                     /\ response_text[s] = WORKING
                     /\ response_text'[s] \in AnswerTexts \cup ErrorTexts]_vars

C5_Witness ==
    \E s \in Sessions :
        /\ submits[s] = 2
        /\ last[s].st = "pending"
        /\ response_text[s] = WORKING
        /\ displayed[s].text \in ErrorTexts

\* C6: when the query returns answer a, Response State after handle_ask is
\* the textual form of a exactly.
C6_AnswerShown ==
    \A s \in Sessions :
        last[s].st = "ok" => response_text[s] = TextualForm(last[s].res)

C6_Witness ==
    \E s \in Sessions :
        /\ question[s] = "What is Crawl4AI?"
        /\ last[s].st = "ok"
        /\ last[s].res = [kind |-> "str", v |-> "42"]
        /\ response_text[s] = "42"

\* C7: for every preset index i in 0..4 there is a handler on control
\* sample_i, and a click of sample_i sets the question field to exactly
\* SAMPLE_QUESTIONS[i], leaves Response State as it was and submits nothing.
C7_SampleSetsQuestion ==
    /\ \A i \in 0..4 : \E h \in Handlers : h.event = i
    /\ [][\A s \in Sessions, i \in 0..4 :
            sample_click(s, i) =>
                /\ question'[s] = SAMPLE_QUESTIONS[i + 1]
                /\ response_text' = response_text
                /\ submits' = submits
                /\ queued' = queued
                /\ calls' = calls
                /\ pc' = pc]_vars

C7_Witness ==
    \E s \in Sessions :
        /\ question[s] = "How can I crawl multiple URLs?"
        /\ last[s].st = "ok"
        /\ response_text[s] = "42"
        /\ calls[s] = 1

C9_SessionsIndependent ==
    [][/\ \A s \in Sessions :
             response_text'[s] # response_text[s] => AskStep(s) \/ DoneStep(s)
       /\ \A s \in Sessions :
             (pc'[s] # pc[s] \/ question'[s] # question[s]
                 \/ queued'[s] # queued[s]) =>
                 \A o \in Sessions \ {s} : response_text'[o] = response_text[o]
       /\ query_engine' = query_engine]_vars

C9_Witness ==
    \E s \in Sessions, o \in Sessions :
        /\ s # o
        /\ response_text[s] = "42"
        /\ pc[o] = "flush"
        /\ response_text[o] = ERROR_PREFIX \o "boom"

\* C10: a submit with a non-empty question calls the query engine once, with
\* the question field's value at that moment; nothing else calls it (no
\* retry after an exception); and a session's calls never outnumber its
\* submits.
C10_OneCallPerSubmit ==
    /\ \A s \in Sessions : calls[s] <= submits[s]
    /\ [][\A s \in Sessions :
            /\ (AskStep(s) /\ question[s] # "") =>
                  /\ calls'[s] = calls[s] + 1
                  /\ arg'[s] = question[s]
                  /\ pc'[s] = "querying"
            /\ calls'[s] # calls[s] =>
                  AskStep(s) /\ question[s] # "" /\ calls'[s] = calls[s] + 1]_vars

C10_Witness ==
    \E s \in Sessions :
        /\ submits[s] = 2
        /\ calls[s] = 2
        /\ last[s].st = "err"
        /\ pc[s] = "idle"

====
